---- MODULE Spec2Model ----
(***************************************************************************)
(* Travel assistant: the /chat web handler (travel-assistant/main.py), the *)
(* inquiry router, the flight status agent and the flight analytics agent. *)
(* One session is modelled; its requests are served one after the other.   *)
(* A request is a sequence of steps, one per external call (LLM, REST      *)
(* provider, warehouse): the step that issues a call runs the handler up   *)
(* to the call, the step that receives the reply runs it up to the next    *)
(* call or to the response.                                                *)
(*                                                                         *)
(* Text is a sequence of one-character strings, so that the regular        *)
(* expressions, upper(), lower() and the substring tests are computed on   *)
(* the characters as Python computes them.                                 *)
(***************************************************************************)
EXTENDS Integers, Sequences, FiniteSets, TLC

VARIABLES
    env,          \* process environment: which secrets / credentials are configured
    pc,           \* position of the request in flight ("boot" before the app is up)
    memory,       \* session['memory'] of main.py
    req,          \* the current (or last) /chat request
    calls,        \* external calls and handler invocations of the current request
    ans,          \* the replies the external services gave to the current request
    resp,         \* what the web layer got back from chat() for the current request
    agentMemory,  \* FlightAnalyticsAgent.memory of the instance built for this request
    nreq,         \* number of /chat requests started in this session
    lastRoute,    \* history: route pair of the most recent request that had a route pattern
    tracking,     \* history switch: prev is recorded only when set
    prev          \* history: the previous status-routed request of this session

vars == <<env, pc, memory, req, calls, ans, resp, agentMemory, nreq, lastRoute, tracking, prev>>

(***************************************************************************)
(* Bounds                                                                  *)
(***************************************************************************)
MaxRequests == 3
MaxRows == 1

(***************************************************************************)
(* Characters                                                              *)
(***************************************************************************)
Upper26 == <<"A","B","C","D","E","F","G","H","I","J","K","L","M",
             "N","O","P","Q","R","S","T","U","V","W","X","Y","Z">>
Lower26 == <<"a","b","c","d","e","f","g","h","i","j","k","l","m",
             "n","o","p","q","r","s","t","u","v","w","x","y","z">>
AsciiUpper == {Upper26[i] : i \in DOMAIN Upper26}
AsciiLower == {Lower26[i] : i \in DOMAIN Lower26}
DigitChars == {"0","1","2","3","4","5","6","7","8","9"}
\* U+212A KELVIN SIGN: a letter that is not ASCII, upper-case already
\* (upper() leaves it, lower() gives "k"), and that [A-Z] matches under
\* re.IGNORECASE but not without it.
Kelvin == "KELVIN"

IsWordChar(c) == c \in AsciiUpper \cup AsciiLower \cup DigitChars \cup {"_", Kelvin}
IsSpace(c) == c \in {" ", "\n"}

CharUpper(c) ==
    IF c \in AsciiLower
    THEN Upper26[CHOOSE i \in DOMAIN Lower26 : Lower26[i] = c]
    ELSE c

CharLower(c) ==
    IF c \in AsciiUpper
    THEN Lower26[CHOOSE i \in DOMAIN Upper26 : Upper26[i] = c]
    ELSE IF c = Kelvin THEN "k" ELSE c

StrUpper(s) == [i \in 1..Len(s) |-> CharUpper(s[i])]
StrLower(s) == [i \in 1..Len(s) |-> CharLower(s[i])]

\* the character class [A-Z], with or without re.IGNORECASE
MatchAZ(c, ignorecase) ==
    \/ c \in AsciiUpper
    \/ ignorecase /\ (c \in AsciiLower \/ c = Kelvin)

\* \b between s[p-1] and s[p]
WordBoundary(s, p) ==
    LET before == p > 1 /\ IsWordChar(s[p - 1])
        after  == p <= Len(s) /\ IsWordChar(s[p])
    IN  before # after

\* pattern in s at position p (str.__contains__ building block)
OccursAt(s, pat, p) ==
    /\ p + Len(pat) - 1 <= Len(s)
    /\ \A k \in 1..Len(pat) : s[p + k - 1] = pat[k]

Contains(s, pat) == \E p \in 1..Len(s) : OccursAt(s, pat, p)

SetMin(S) == CHOOSE x \in S : \A y \in S : x <= y

None == <<>>

(***************************************************************************)
(* Regular expressions                                                     *)
(***************************************************************************)
\* The digit counts n for which \b([A-Z]{2}\d{1,4})\b matches s at position i.
FlightDigitsAt(s, i, ignorecase) ==
    {n \in 1..4 :
        /\ i + 1 + n <= Len(s)
        /\ WordBoundary(s, i)
        /\ MatchAZ(s[i], ignorecase)
        /\ MatchAZ(s[i + 1], ignorecase)
        /\ \A k \in 2..(n + 1) : s[i + k] \in DigitChars
        /\ WordBoundary(s, i + 2 + n)}

\* re.search(r'\b([A-Z]{2}\d{1,4})\b', s[, re.IGNORECASE]): group(1) of the
\* leftmost match, or None.
FlightRegexSearch(s, ignorecase) ==
    LET starts == {i \in 1..Len(s) : FlightDigitsAt(s, i, ignorecase) # {}}
    IN  IF starts = {} THEN None
        ELSE LET i == SetMin(starts)
                 n == CHOOSE m \in FlightDigitsAt(s, i, ignorecase) : TRUE
             IN  SubSeq(s, i, i + 1 + n)

\* first position >= p of s that holds no whitespace (Len(s) + 1 if none): where \s+ stops
SkipSpaces(s, p) ==
    SetMin({i \in p..(Len(s) + 1) : i = Len(s) + 1 \/ ~IsSpace(s[i])})

LettersAt(s, p, n) ==
    /\ p + n - 1 <= Len(s)
    /\ \A k \in 0..(n - 1) : MatchAZ(s[p + k], TRUE)

NoRoute == [found |-> FALSE, origin |-> None, dest |-> None]

\* ROUTE_REGEX = from\s+([A-Z]{3})\s+to\s+([A-Z]{3}), re.IGNORECASE, tried at position i
RouteAt(s, i) ==
    IF ~OccursAt(StrLower(s), <<"f","r","o","m">>, i) THEN NoRoute
    ELSE LET a == SkipSpaces(s, i + 4) IN
    IF a = i + 4 \/ ~LettersAt(s, a, 3) THEN NoRoute
    ELSE LET t == SkipSpaces(s, a + 3) IN
    IF t = a + 3 \/ ~OccursAt(StrLower(s), <<"t","o">>, t) THEN NoRoute
    ELSE LET b == SkipSpaces(s, t + 2) IN
    IF b = t + 2 \/ ~LettersAt(s, b, 3) THEN NoRoute
    ELSE [found |-> TRUE, origin |-> SubSeq(s, a, a + 2), dest |-> SubSeq(s, b, b + 2)]

\* ROUTE_REGEX.search(s): the leftmost match
RouteRegexSearch(s) ==
    LET starts == {i \in 1..Len(s) : RouteAt(s, i).found}
    IN  IF starts = {} THEN NoRoute ELSE RouteAt(s, SetMin(starts))

(***************************************************************************)
(* Query texts the client sends                                            *)
(***************************************************************************)
T_AA123 == <<"A","A","1","2","3">>
T_aa7route == <<"a","a","7"," ","f","r","o","m"," ","J","F","K"," ","t","o"," ","L","A","X">>
T_AA12345 == <<"A","A","1","2","3","4","5">>
T_KA12 == <<Kelvin,"A","1","2">>
T_delays == <<"d","e","l","a","y","s","?">>
T_showme == <<"S","h","o","w"," ","m","e">>
T_showroute == <<"s","h","o","w"," ","m","e"," ","f","r","o","m"," ","J","F","K"," ","t","o"," ","L","A","X">>
T_lowroute == <<"b","e","s","t"," ","d","a","y"," ","f","r","o","m"," "," ","s","f","o"," ","t","o"," ","j","f","k">>

Queries == {T_AA123, T_aa7route, T_AA12345, T_KA12, T_delays, T_showme, T_showroute, T_lowroute}

T_from == <<" ","f","r","o","m"," ">>
T_to == <<" ","t","o"," ">>
T_analytics == <<"a","n","a","l","y","t","i","c","s">>
T_show_me == <<"s","h","o","w"," ","m","e">>
JFK == <<"J","F","K">>
LAX == <<"L","A","X">>
SFO == <<"S","F","O">>

\* Every text chat() can be working on: a client text, alone or followed by
\* a remembered route. The searches below are evaluated once per text.
RoutePairs ==
    {<<StrUpper(RouteRegexSearch(q).origin), StrUpper(RouteRegexSearch(q).dest)>> :
        q \in {x \in Queries : RouteRegexSearch(x).found}}
Texts == Queries \cup {q \o T_from \o p[1] \o T_to \o p[2] : q \in Queries, p \in RoutePairs}

Cached(table, x, computed) == IF x \in DOMAIN table THEN table[x] ELSE computed

RouteSearchTable == [t \in Texts |-> RouteRegexSearch(t)]
RouteSearch(s) == Cached(RouteSearchTable, s, RouteRegexSearch(s))

FlightSearchTable == [t \in Texts |-> [ic \in BOOLEAN |-> FlightRegexSearch(t, ic)]]
UpperFlightSearchTable == [t \in Texts |-> FlightRegexSearch(StrUpper(t), FALSE)]
FlightSearch(s, ignorecase) ==
    IF s \in Texts THEN FlightSearchTable[s][ignorecase] ELSE FlightRegexSearch(s, ignorecase)

LowerContainsTable == [t \in Texts |-> [pat \in {T_analytics, T_show_me} |-> Contains(StrLower(t), pat)]]
\* pat in s.lower()
LowerContains(s, pat) ==
    IF s \in Texts /\ pat \in {T_analytics, T_show_me}
    THEN LowerContainsTable[s][pat]
    ELSE Contains(StrLower(s), pat)

(***************************************************************************)
(* main.py: chat(), lines 36-53: session memory and the outgoing query     *)
(***************************************************************************)
\* a Python dict as a function on the keys present
EmptyDict == [k \in {} |-> None]
Put(d, k, v) == [x \in (DOMAIN d) \cup {k} |-> IF x = k THEN v ELSE d[x]]
Has(d, k) == k \in DOMAIN d

\* lines 41-48: the text handed on to the router and to the handler
EffectiveQuery_AlwaysAppend(user_query, mem) ==
    IF Has(mem, "origin") /\ Has(mem, "dest")
    THEN user_query \o T_from \o mem["origin"] \o T_to \o mem["dest"]
    ELSE user_query

EffectiveQuery(user_query, mem) ==
    IF RouteSearch(user_query).found
    THEN user_query
    ELSE IF Has(mem, "origin") /\ Has(mem, "dest")
         THEN user_query \o T_from \o mem["origin"] \o T_to \o mem["dest"]
         ELSE user_query

\* lines 41-45: the route of the current query is remembered, upper-cased
RememberRoute_KeepFirst(user_query, mem) ==
    LET m == RouteSearch(user_query)
    IN  IF m.found /\ ~Has(mem, "origin")
        THEN Put(Put(mem, "origin", StrUpper(m.origin)), "dest", StrUpper(m.dest))
        ELSE mem

RememberRoute(user_query, mem) ==
    LET m == RouteSearch(user_query)
    IN  IF m.found
        THEN Put(Put(mem, "origin", StrUpper(m.origin)), "dest", StrUpper(m.dest))
        ELSE mem

\* the intent marker, rewritten on every request
RememberIntent_TrackEveryTurn(outgoing, mem) ==
    IF LowerContains(outgoing, T_analytics) \/ LowerContains(outgoing, T_show_me)
    THEN Put(mem, "last_intent", T_analytics)
    ELSE Put(mem, "last_intent", <<"s","t","a","t","u","s">>)

\* lines 51-52: the intent marker, tested on the outgoing text
RememberIntent(outgoing, mem) ==
    IF LowerContains(outgoing, T_analytics) \/ LowerContains(outgoing, T_show_me)
    THEN Put(mem, "last_intent", T_analytics)
    ELSE mem

\* lines 37-53: the value stored in session['memory']
UpdatedMemory(user_query, mem) ==
    RememberIntent(EffectiveQuery(user_query, mem), RememberRoute(user_query, mem))

(***************************************************************************)
(* inquiry_router_agent.py                                                 *)
(***************************************************************************)
\* line 33, without re.IGNORECASE
RouterMatchesFlight_CaseSensitive(query) == FlightSearch(query, FALSE) # None

\* line 33: re.search(r'\b([A-Z]{2}\d{1,4})\b', query, re.IGNORECASE)
RouterMatchesFlight(query) == FlightSearch(query, TRUE) # None

\* what the classification LLM may do: answer (the text, stripped and
\* lower-cased, line 42) with one of the two labels or with something else, or raise
T_flight_status == <<"f","l","i","g","h","t","_","s","t","a","t","u","s">>
R_status == <<" ","F","l","i","g","h","t","_","S","t","a","t","u","s","\n">>
R_analytics == <<"f","l","i","g","h","t","_","a","n","a","l","y","t","i","c","s">>
R_weather == <<"W","e","a","t","h","e","r">>
ClassifyTexts == {R_status, R_analytics, R_weather}
ClassifyReplies ==
    {[kind |-> "text", text |-> t] : t \in ClassifyTexts} \cup {[kind |-> "raise", text |-> None]}
NoClassify == [kind |-> "none", text |-> None]

SetMax(S) == CHOOSE x \in S : \A y \in S : x >= y

\* str.strip(): leading and trailing whitespace removed
Strip(s) ==
    LET keep == {i \in 1..Len(s) : ~IsSpace(s[i])}
    IN  IF keep = {} THEN <<>> ELSE SubSeq(s, SetMin(keep), SetMax(keep))

\* line 42: response.text.strip().lower(), used as the route as it is
RouteLabel_NoLower(text) == Strip(text)

RouteLabel(text) == StrLower(Strip(text))

\* req.route before the router has answered, and when it raised
RoutePending == <<"(pending)">>
RouteNone == <<"(none)">>

(***************************************************************************)
(* flight_status_agent.py                                                  *)
(***************************************************************************)
\* lines 93-94: re.search(r'\b([A-Z]{2}\d{1,4})\b', query.upper())
ExtractFlightNumber(query) ==
    Cached(UpperFlightSearchTable, query, FlightRegexSearch(StrUpper(query), FALSE))

\* what requests.get / raise_for_status / response.json() may do (lines 110-112)
RestOutcomes ==
    {"read_timeout", "connect_timeout", "connection_error", "http_error", "bad_json",
     "json_array", "data_absent", "data_null", "data_empty", "data_number",
     "first_empty", "first_ok", "first_malformed"}

\* the classes of the exception an outcome raises inside _fetch_flight_data
\* (requests.ConnectTimeout is both a ConnectionError and a Timeout)
RaisedBy(outcome) ==
    CASE outcome = "read_timeout"     -> {"Timeout", "RequestException"}
      [] outcome = "connect_timeout"  -> {"ConnectionError", "Timeout", "RequestException"}
      [] outcome = "connection_error" -> {"ConnectionError", "RequestException"}
      [] outcome = "http_error"       -> {"HTTPError", "RequestException"}
      [] outcome = "bad_json"         -> {"ValueError"}
      [] outcome = "json_array"       -> {"AttributeError"}
      [] outcome = "data_number"      -> {"TypeError"}
      [] OTHER                        -> {}

\* lines 113-115: the value _fetch_flight_data returns when nothing is raised
FetchedData(outcome) ==
    CASE outcome \in {"data_absent", "data_null", "data_empty"} -> "None"
      [] outcome = "first_empty"     -> "empty_record"
      [] outcome = "first_ok"        -> "record"
      [] outcome = "first_malformed" -> "malformed_record"
      [] OTHER                       -> "None"

\* lines 61-81: the except clauses, in order
ExceptCode_ConnectionFirst(raised) ==
    IF "ConnectionError" \in raised THEN "NETWORK_ERROR"
    ELSE IF "Timeout" \in raised THEN "TIMEOUT"
    ELSE "SYSTEM_ERROR"

ExceptCode(raised) ==
    IF "Timeout" \in raised THEN "TIMEOUT"
    ELSE IF "ConnectionError" \in raised THEN "NETWORK_ERROR"
    ELSE "SYSTEM_ERROR"

\* lines 47-58, after the REST call came back: the code returned (or "CALL_SUMMARY"
\* when the summarisation call is issued) and whether _format_flight_status was called
AfterFetch_NoEmptyCheck(outcome) ==
    IF RaisedBy(outcome) # {}
    THEN [next |-> ExceptCode(RaisedBy(outcome)), formatted |-> FALSE]
    ELSE IF FetchedData(outcome) \in {"None", "empty_record", "malformed_record"}
         THEN [next |-> "SYSTEM_ERROR", formatted |-> TRUE]
         ELSE [next |-> "CALL_SUMMARY", formatted |-> TRUE]

AfterFetch(outcome) ==
    IF RaisedBy(outcome) # {}
    THEN [next |-> ExceptCode(RaisedBy(outcome)), formatted |-> FALSE]
    ELSE IF FetchedData(outcome) \in {"None", "empty_record"}
         THEN [next |-> "NOT_FOUND", formatted |-> FALSE]
         ELSE IF FetchedData(outcome) = "malformed_record"
              THEN [next |-> "SYSTEM_ERROR", formatted |-> TRUE]
              ELSE [next |-> "CALL_SUMMARY", formatted |-> TRUE]

SummaryReplies == {"ok", "raise"}

(***************************************************************************)
(* flight_analytics_agent.py                                               *)
(***************************************************************************)
RequiredKeys == {"sql", "parameters", "query_type", "extracted_values"}

\* extracted_values of a reply: a dict (the keys present, with their values) or null
EvNull == [isDict |-> FALSE, vals |-> EmptyDict]
EvDict(d) == [isDict |-> TRUE, vals |-> d]
EvRoute(o, d) == EvDict(Put(Put(EmptyDict, "origin", o), "destination", d))

\* What the SQL-generation LLM may reply (line 171-172). kind: the call or
\* .text raises; the text is no JSON; or the JSON value is a number, null, an
\* array, a string or an object. names: the keys of the object, the elements
\* of the array, or the names that occur in the string. paramsOk: whether
\* QueryJobConfig accepts the "parameters" value (line 218).
Reply(kind, names, ev, paramsOk) ==
    [kind |-> kind, names |-> names, ev |-> ev, paramsOk |-> paramsOk]

NoReply == Reply("none", {}, EvNull, TRUE)

ValidObjects ==
    {Reply("object", RequiredKeys, ev, ok) :
        ev \in {EvDict(EmptyDict), EvRoute(JFK, LAX), EvRoute(SFO, LAX), EvNull},
        ok \in BOOLEAN}

SqlGenReplies ==
    {Reply(k, {}, EvNull, TRUE) : k \in {"raise", "unparseable", "number", "null", "object"}}
    \cup {Reply("object", RequiredKeys \ {k}, EvDict(EmptyDict), TRUE) : k \in RequiredKeys}
    \cup {Reply("object", RequiredKeys \cup {"error"}, EvDict(EmptyDict), TRUE)}
    \cup {Reply(k, RequiredKeys, EvNull, TRUE) : k \in {"array", "string"}}
    \cup {Reply("array", RequiredKeys \cup {"error"}, EvNull, TRUE)}
    \cup ValidObjects

\* lines 170-188: _validate_and_structure_sql gives back the decoded value, or
\* the error dict of its except clause. `key in result` raises TypeError on a
\* number or on None, is element membership on a list and substring search on a str.
ValidateAndStructure(reply) ==
    IF reply.kind \in {"raise", "unparseable", "number", "null"}
    THEN [errdict |-> TRUE, value |-> NoReply]
    ELSE IF RequiredKeys \subseteq reply.names
         THEN [errdict |-> FALSE, value |-> reply]
         ELSE [errdict |-> TRUE, value |-> NoReply]

\* lines 130-136
FreshAgentMemory ==
    [k \in {"last_query_type", "last_origin", "last_destination", "last_year", "last_limit"}
        |-> None]

\* lines 266-273: _update_memory
UpdateAgentMemory(mem, extracted) ==
    [k \in DOMAIN mem |->
        CASE k = "last_origin" /\ Has(extracted, "origin") -> extracted["origin"]
          [] k = "last_destination" /\ Has(extracted, "destination") -> extracted["destination"]
          [] k = "last_year" /\ Has(extracted, "year") -> extracted["year"]
          [] k = "last_limit" /\ Has(extracted, "limit") -> extracted["limit"]
          [] OTHER -> mem[k]]

\* lines 203-221, after _validate_and_structure_sql returned v: the code
\* returned, "RAISE" when an exception leaves handle(), or "CALL_WAREHOUSE"
\* when the query is issued; and whether _update_memory ran to its end
AfterValidation(v) ==
    IF v.errdict
    THEN [next |-> "VALIDATION_ERROR", updated |-> FALSE]
    ELSE IF "error" \in v.value.names
    THEN IF v.value.kind = "object"
         THEN [next |-> "VALIDATION_ERROR", updated |-> FALSE]
         ELSE [next |-> "RAISE", updated |-> FALSE]       \* validation_result['error']
    ELSE IF v.value.kind # "object"
    THEN [next |-> "RAISE", updated |-> FALSE]            \* validation_result['extracted_values']
    ELSE IF ~v.value.ev.isDict
    THEN [next |-> "RAISE", updated |-> FALSE]            \* 'origin' in None
    ELSE IF ~v.value.paramsOk
    THEN [next |-> "SYSTEM_ERROR", updated |-> TRUE]      \* QueryJobConfig raises, inside try
    ELSE [next |-> "CALL_WAREHOUSE", updated |-> TRUE]

\* what bq_client.query(...) / query_job.result() may do (lines 216-223)
Rows(n) == [kind |-> "rows", rows |-> n]
Failure(k) == [kind |-> k, rows |-> 0]
NoOutcome == Failure("none")
WarehouseOutcomes ==
    {Rows(n) : n \in 0..MaxRows}
    \cup {Failure(k) : k \in {"timeout", "connection_error", "bad_request"}}

\* lines 223-242, after the warehouse call came back
AfterWarehouse_NoEmptyCheck(outcome) ==
    IF outcome.kind # "rows" THEN "SYSTEM_ERROR" ELSE "CALL_SUMMARY"

AfterWarehouse(outcome) ==
    IF outcome.kind # "rows" THEN "SYSTEM_ERROR"
    ELSE IF outcome.rows = 0 THEN "NOT_FOUND"
    ELSE "CALL_SUMMARY"

\* lines 58-60 of the status agent, lines 242-258 of the analytics agent:
\* both return SUCCESS with the summary, or SYSTEM_ERROR from except Exception
AfterSummary(reply) == IF reply = "ok" THEN "SUCCESS" ELSE "SYSTEM_ERROR"

(***************************************************************************)
(* State                                                                   *)
(***************************************************************************)
Pending == [kind |-> "pending", code |-> "NONE", subscription |-> FALSE]
\* lines 67-69 of main.py: the handler's dict, with the subscription note, as JSON
JsonResponse(code, subscribe) == [kind |-> "json", code |-> code, subscription |-> subscribe]
\* an exception left chat(): the web layer has no dict to serialise
Escaped(exception) == [kind |-> "exception", code |-> exception, subscription |-> FALSE]

NoRequest ==
    [raw |-> None, query |-> None, subscribe |-> FALSE, route |-> RouteNone,
     handler |-> "none", handlerQuery |-> None, flight |-> None]

ZeroCalls ==
    [classify |-> 0, statusHandle |-> 0, analyticsHandle |-> 0, rest |-> 0, format |-> 0,
     sqlgen |-> 0, warehouse |-> 0, summary |-> 0]

NoAnswers ==
    [classify |-> NoClassify, rest |-> "none", sqlgen |-> NoReply, warehouse |-> NoOutcome,
     summary |-> "none"]

NoPrev == [valid |-> FALSE, req |-> NoRequest, ans |-> NoAnswers, resp |-> Pending]

Bump(c, field) == [c EXCEPT ![field] = @ + 1]

\* main.py lines 56-64 once the route is known: the handler is built and run
\* up to its first external call. FlightStatusAgent.__init__ raises when the
\* key is missing (flight_status_agent.py 20-24); bigquery.Client raises when
\* no credentials are configured (flight_analytics_agent.py 126).
Dispatch_KeyUnchecked(route, query, subscribe) ==
    IF route = T_flight_status
    THEN LET fn == ExtractFlightNumber(query) IN
         IF fn = None
         THEN [pc |-> "idle", resp |-> JsonResponse("INVALID_INPUT", subscribe),
               handler |-> "status", flight |-> None]
         ELSE [pc |-> "rest", resp |-> Pending, handler |-> "status", flight |-> fn]
    ELSE IF ~env.creds
         THEN [pc |-> "idle", resp |-> Escaped("DefaultCredentialsError"),
               handler |-> "none", flight |-> None]
         ELSE [pc |-> "sqlgen", resp |-> Pending, handler |-> "analytics", flight |-> None]

Dispatch(route, query, subscribe) ==
    IF route = T_flight_status
    THEN IF ~env.key
         THEN [pc |-> "idle", resp |-> Escaped("EnvironmentError"),
               handler |-> "none", flight |-> None]
         ELSE LET fn == ExtractFlightNumber(query) IN
              IF fn = None
              THEN [pc |-> "idle", resp |-> JsonResponse("INVALID_INPUT", subscribe),
                    handler |-> "status", flight |-> None]
              ELSE [pc |-> "rest", resp |-> Pending, handler |-> "status", flight |-> fn]
    ELSE IF ~env.creds
         THEN [pc |-> "idle", resp |-> Escaped("DefaultCredentialsError"),
               handler |-> "none", flight |-> None]
         ELSE [pc |-> "sqlgen", resp |-> Pending, handler |-> "analytics", flight |-> None]

\* the counters after Dispatch
CallsAfterDispatch(c, d) ==
    LET c1 == IF d.handler = "status" THEN Bump(c, "statusHandle")
              ELSE IF d.handler = "analytics" THEN Bump(c, "analyticsHandle")
              ELSE c
    IN  IF d.pc = "rest" THEN Bump(c1, "rest")
        ELSE IF d.pc = "sqlgen" THEN Bump(c1, "sqlgen")
        ELSE c1

Init ==
    /\ env \in [key : BOOLEAN, creds : BOOLEAN]
    /\ pc = "boot"
    /\ memory = EmptyDict
    /\ req = NoRequest
    /\ calls = ZeroCalls
    /\ ans = NoAnswers
    /\ resp = Pending
    /\ agentMemory = EmptyDict
    /\ nreq = 0
    /\ lastRoute = NoRoute
    /\ tracking = FALSE
    /\ prev = NoPrev

\* the sessions of SpecRepeat: a client that sends a status-routed query again
InitRepeat ==
    /\ env \in [key : BOOLEAN, creds : BOOLEAN]
    /\ pc = "boot"
    /\ memory = EmptyDict
    /\ req = NoRequest
    /\ calls = ZeroCalls
    /\ ans = NoAnswers
    /\ resp = Pending
    /\ agentMemory = EmptyDict
    /\ nreq = 0
    /\ lastRoute = NoRoute
    /\ tracking = TRUE
    /\ prev = NoPrev

(***************************************************************************)
(* Actions                                                                 *)
(***************************************************************************)
\* main.py lines 10-18: the module is imported, the router agent is built
\* (it reads GEMINI_API_KEY only), the app serves. No status agent is built here.
Startup ==
    /\ pc = "boot"
    /\ pc' = "idle"
    /\ UNCHANGED <<env, memory, req, calls, ans, resp, agentMemory, nreq, lastRoute,
                   tracking, prev>>

\* POST /chat: main.py lines 36-56 and the router up to its LLM call
\* (inquiry_router_agent.py 28-39); on a flight-number match, on to the handler.
ChatBegin(q, subscribe) ==
    /\ pc = "idle"
    /\ nreq < MaxRequests
    /\ (tracking /\ nreq > 0 /\ req.route = T_flight_status) => q = req.raw
    /\ LET outgoing == EffectiveQuery(q, memory)
           m == RouteSearch(q)
           matched == RouterMatchesFlight(outgoing)
           d == Dispatch(T_flight_status, outgoing, subscribe)
           r0 == [raw |-> q, query |-> outgoing, subscribe |-> subscribe,
                  route |-> RoutePending, handler |-> "none", handlerQuery |-> None,
                  flight |-> None]
       IN  /\ memory' = UpdatedMemory(q, memory)
           /\ lastRoute' = IF m.found
                           THEN [found |-> TRUE, origin |-> StrUpper(m.origin),
                                 dest |-> StrUpper(m.dest)]
                           ELSE lastRoute
           /\ prev' = IF tracking /\ nreq > 0 /\ req.route = T_flight_status
                      THEN [valid |-> TRUE, req |-> req, ans |-> ans, resp |-> resp]
                      ELSE NoPrev
           /\ nreq' = nreq + 1
           /\ ans' = NoAnswers
           /\ agentMemory' = EmptyDict
           /\ IF matched
              THEN /\ req' = [r0 EXCEPT !.route = T_flight_status, !.handler = d.handler,
                                        !.handlerQuery = IF d.handler = "none" THEN None
                                                         ELSE outgoing,
                                        !.flight = d.flight]
                   /\ calls' = CallsAfterDispatch(ZeroCalls, d)
                   /\ pc' = d.pc
                   /\ resp' = d.resp
              ELSE /\ req' = r0
                   /\ calls' = Bump(ZeroCalls, "classify")
                   /\ pc' = "classify"
                   /\ resp' = Pending
    /\ UNCHANGED <<env, tracking>>

\* inquiry_router_agent.py 39-42 and main.py 56-64: the classification reply
\* is the route, verbatim; then the handler is built and run to its first call.
ClassifyReply(reply) ==
    /\ pc = "classify"
    /\ ans' = [ans EXCEPT !.classify = reply]
    /\ IF reply.kind = "raise"
       THEN /\ req' = [req EXCEPT !.route = RouteNone]
            /\ pc' = "idle"
            /\ resp' = Escaped("LLMError")
            /\ UNCHANGED <<calls, agentMemory>>
       ELSE LET label == RouteLabel(reply.text)
                d == Dispatch(label, req.query, req.subscribe)
            IN
            /\ req' = [req EXCEPT !.route = label, !.handler = d.handler,
                                  !.handlerQuery = IF d.handler = "none" THEN None
                                                   ELSE req.query,
                                  !.flight = d.flight]
            /\ calls' = CallsAfterDispatch(calls, d)
            /\ pc' = d.pc
            /\ resp' = d.resp
            /\ agentMemory' = IF d.handler = "analytics" THEN FreshAgentMemory
                              ELSE agentMemory
    /\ UNCHANGED <<env, memory, nreq, lastRoute, tracking, prev>>

\* the REST call ends; a timed-out call is issued once more
RestReply_RetryOnTimeout(outcome) ==
    /\ pc = "rest"
    /\ ans' = [ans EXCEPT !.rest = outcome]
    /\ LET a == AfterFetch(outcome)
           c1 == IF a.formatted THEN Bump(calls, "format") ELSE calls
       IN  IF a.next = "TIMEOUT" /\ calls.rest < 2
           THEN /\ pc' = "rest"
                /\ calls' = Bump(c1, "rest")
                /\ resp' = Pending
           ELSE IF a.next = "CALL_SUMMARY"
           THEN /\ pc' = "status_summary"
                /\ calls' = Bump(c1, "summary")
                /\ resp' = Pending
           ELSE /\ pc' = "idle"
                /\ calls' = c1
                /\ resp' = JsonResponse(a.next, req.subscribe)
    /\ UNCHANGED <<env, memory, req, agentMemory, nreq, lastRoute, tracking, prev>>

\* flight_status_agent.py 47-58 (with 106-115 and 135-183): the REST call ends
RestReply(outcome) ==
    /\ pc = "rest"
    /\ ans' = [ans EXCEPT !.rest = outcome]
    /\ LET a == AfterFetch(outcome)
           c1 == IF a.formatted THEN Bump(calls, "format") ELSE calls
       IN  IF a.next = "CALL_SUMMARY"
           THEN /\ pc' = "status_summary"
                /\ calls' = Bump(c1, "summary")
                /\ resp' = Pending
           ELSE /\ pc' = "idle"
                /\ calls' = c1
                /\ resp' = JsonResponse(a.next, req.subscribe)
    /\ UNCHANGED <<env, memory, req, agentMemory, nreq, lastRoute, tracking, prev>>

\* flight_status_agent.py 58-60, 75-81: the summarisation call ends
StatusSummaryReply(reply) ==
    /\ pc = "status_summary"
    /\ ans' = [ans EXCEPT !.summary = reply]
    /\ pc' = "idle"
    /\ resp' = JsonResponse(AfterSummary(reply), req.subscribe)
    /\ UNCHANGED <<env, memory, req, calls, agentMemory, nreq, lastRoute, tracking, prev>>

\* flight_analytics_agent.py 171-221: the SQL-generation call ends
SqlGenReply(reply) ==
    /\ pc = "sqlgen"
    /\ ans' = [ans EXCEPT !.sqlgen = reply]
    /\ LET v == ValidateAndStructure(reply)
           a == AfterValidation(v)
       IN  /\ agentMemory' = IF a.updated
                             THEN UpdateAgentMemory(agentMemory, v.value.ev.vals)
                             ELSE agentMemory
           /\ CASE a.next = "CALL_WAREHOUSE" ->
                     /\ pc' = "warehouse"
                     /\ calls' = Bump(calls, "warehouse")
                     /\ resp' = Pending
                [] a.next = "RAISE" ->
                     /\ pc' = "idle"
                     /\ calls' = calls
                     /\ resp' = Escaped("TypeError")
                [] OTHER ->
                     /\ pc' = "idle"
                     /\ calls' = calls
                     /\ resp' = JsonResponse(a.next, req.subscribe)
    /\ UNCHANGED <<env, memory, req, nreq, lastRoute, tracking, prev>>

\* flight_analytics_agent.py 223-242: the warehouse query ends
WarehouseReply(outcome) ==
    /\ pc = "warehouse"
    /\ ans' = [ans EXCEPT !.warehouse = outcome]
    /\ LET next == AfterWarehouse(outcome)
       IN  IF next = "CALL_SUMMARY"
           THEN /\ pc' = "analytics_summary"
                /\ calls' = Bump(Bump(calls, "format"), "summary")
                /\ resp' = Pending
           ELSE /\ pc' = "idle"
                /\ calls' = calls
                /\ resp' = JsonResponse(next, req.subscribe)
    /\ UNCHANGED <<env, memory, req, agentMemory, nreq, lastRoute, tracking, prev>>

\* flight_analytics_agent.py 242-258: the summarisation call ends
AnalyticsSummaryReply(reply) ==
    /\ pc = "analytics_summary"
    /\ ans' = [ans EXCEPT !.summary = reply]
    /\ pc' = "idle"
    /\ resp' = JsonResponse(AfterSummary(reply), req.subscribe)
    /\ UNCHANGED <<env, memory, req, calls, agentMemory, nreq, lastRoute, tracking, prev>>

Next ==
    \/ Startup
    \/ \E q \in Queries, subscribe \in BOOLEAN : ChatBegin(q, subscribe)
    \/ \E reply \in ClassifyReplies : ClassifyReply(reply)
    \/ \E outcome \in RestOutcomes : RestReply(outcome)
    \/ \E reply \in SummaryReplies : StatusSummaryReply(reply)
    \/ \E reply \in SqlGenReplies : SqlGenReply(reply)
    \/ \E outcome \in WarehouseOutcomes : WarehouseReply(outcome)
    \/ \E reply \in SummaryReplies : AnalyticsSummaryReply(reply)

Spec == Init /\ [][Next]_vars

SpecRepeat == InitRepeat /\ [][Next]_vars

(***************************************************************************)
(* Properties                                                              *)
(***************************************************************************)
Served == resp.kind = "json"
Done == pc = "idle" /\ nreq > 0

\* a 2-letter carrier code immediately followed by 1 to 4 digits, as a whole word
CarrierWordAt(s, i, n) ==
    /\ i + 1 + n <= Len(s)
    /\ s[i] \in AsciiUpper \cup AsciiLower
    /\ s[i + 1] \in AsciiUpper \cup AsciiLower
    /\ \A k \in 2..(n + 1) : s[i + k] \in DigitChars
    /\ i = 1 \/ ~IsWordChar(s[i - 1])
    /\ i + 2 + n > Len(s) \/ ~IsWordChar(s[i + 2 + n])

HasCarrierWord(s) == \E i \in 1..Len(s), n \in 1..4 : CarrierWordAt(s, i, n)

\* C1: whenever the text given to the router holds a carrier+number word, the
\* route is flight_status and no classification call is issued at any point of
\* the request.
C1_CarrierWordRoutesToStatusWithoutClassifier ==
    (nreq > 0 /\ HasCarrierWord(req.query)) =>
        /\ req.route = T_flight_status
        /\ calls.classify = 0
        /\ ans.classify = NoClassify

C1_Witness ==
    /\ Done
    /\ req.raw = T_aa7route
    /\ HasCarrierWord(req.query)
    /\ req.route = T_flight_status
    /\ calls.classify = 0
    /\ Served

\* a reply to the SQL-generation prompt that is no JSON, or whose JSON lacks
\* one of the four keys (a JSON value that is no object has no keys)
MalformedReply(reply) ==
    \/ reply.kind \in {"unparseable", "number", "null", "array", "string"}
    \/ reply.kind = "object" /\ ~(RequiredKeys \subseteq reply.names)

\* C2: after a malformed reply to the SQL-generation prompt the analytics
\* handler returns VALIDATION_ERROR and the warehouse query is never issued.
C2_MalformedReplyGivesValidationError ==
    (Done /\ MalformedReply(ans.sqlgen)) =>
        /\ resp.kind = "json"
        /\ resp.code = "VALIDATION_ERROR"
        /\ calls.warehouse = 0

\* C3: when a flight number was extracted and the REST provider answered with
\* a body whose data list is absent, null or empty, the status handler returns
\* NOT_FOUND, formats no report and makes no summarisation call.
C3_EmptyDataGivesNotFound ==
    (Done /\ req.flight # None /\ ans.rest \in {"data_absent", "data_null", "data_empty"}) =>
        /\ resp.kind = "json"
        /\ resp.code = "NOT_FOUND"
        /\ calls.format = 0
        /\ calls.summary = 0

C3_Witness ==
    /\ Done
    /\ req.flight = T_AA123
    /\ ans.rest = "data_empty"
    /\ resp.code = "NOT_FOUND"
    /\ calls.rest = 1

\* C4: a query without a route pattern, in a session that remembers an origin
\* and a destination, goes to the router and to the handler with
\* " from <origin> to <destination>" appended, the pair being that of the most
\* recent earlier request with a route pattern; a query with a route pattern
\* goes on unchanged.
C4_RememberedRouteIsAppended ==
    nreq > 0 =>
        LET expected ==
                IF RouteSearch(req.raw).found THEN req.raw
                ELSE req.raw \o T_from \o lastRoute.origin \o T_to \o lastRoute.dest
            applies ==
                \/ RouteSearch(req.raw).found
                \/ Has(memory, "origin") /\ Has(memory, "dest")
        IN  applies =>
                /\ RouteSearch(req.raw).found \/ lastRoute.found
                /\ req.query = expected
                /\ req.handler # "none" => req.handlerQuery = expected

C4_Witness ==
    /\ Done
    /\ nreq = 3
    /\ req.raw = T_delays
    /\ req.query = T_delays \o T_from \o SFO \o T_to \o JFK
    /\ req.handler = "analytics"
    /\ req.handlerQuery = req.query

\* C5: every /chat request ends with a structured JSON response; no exception
\* leaves chat().
C5_NoExceptionEscapes ==
    resp.kind # "exception"

\* C6: the status handler returns TIMEOUT when the REST call timed out and
\* NETWORK_ERROR when the connection failed (without timing out), and never
\* VALIDATION_ERROR; the analytics handler never returns TIMEOUT,
\* NETWORK_ERROR or INVALID_INPUT, and reports every failure of its warehouse
\* or summarisation call as SYSTEM_ERROR.
C6_CodesPartitionedByPath ==
    (Done /\ Served) =>
        /\ req.handler = "status" =>
              /\ ans.rest \in {"read_timeout", "connect_timeout"} => resp.code = "TIMEOUT"
              /\ ans.rest = "connection_error" => resp.code = "NETWORK_ERROR"
              /\ resp.code # "VALIDATION_ERROR"
        /\ req.handler = "analytics" =>
              /\ resp.code \notin {"TIMEOUT", "NETWORK_ERROR", "INVALID_INPUT"}
              /\ ans.warehouse.kind \in {"timeout", "connection_error", "bad_request"}
                    => resp.code = "SYSTEM_ERROR"
              /\ ans.summary = "raise" => resp.code = "SYSTEM_ERROR"

C6_Witness ==
    /\ Done
    /\ req.handler = "status"
    /\ ans.rest = "connect_timeout"
    /\ resp.code = "TIMEOUT"

\* the structured query of the request passed validation and carries both values
CarriesRoute(reply) ==
    /\ reply.kind = "object"
    /\ RequiredKeys \subseteq reply.names
    /\ "error" \notin reply.names
    /\ reply.ev.isDict
    /\ Has(reply.ev.vals, "origin")
    /\ Has(reply.ev.vals, "destination")

\* C7: after an analytics request whose structured query carries an origin and
\* a destination, the session memory holds them as the remembered route.
C7_ExtractedRouteReachesSession ==
    (Done /\ req.handler = "analytics" /\ CarriesRoute(ans.sqlgen)) =>
        /\ Has(memory, "origin")
        /\ Has(memory, "dest")
        /\ memory["origin"] = ans.sqlgen.ev.vals["origin"]
        /\ memory["dest"] = ans.sqlgen.ev.vals["destination"]

\* the services answered the two requests alike: a call made with the same
\* input in both got the same reply in both
SameAnswers ==
    /\ (prev.ans.classify # NoClassify /\ ans.classify # NoClassify /\ prev.req.query = req.query)
          => prev.ans.classify = ans.classify
    /\ (prev.ans.rest # "none" /\ ans.rest # "none" /\ prev.req.flight = req.flight)
          => prev.ans.rest = ans.rest
    /\ (prev.ans.sqlgen # NoReply /\ ans.sqlgen # NoReply /\ prev.req.query = req.query)
          => prev.ans.sqlgen = ans.sqlgen
    /\ (prev.ans.warehouse # NoOutcome /\ ans.warehouse # NoOutcome
          /\ prev.ans.sqlgen = ans.sqlgen) => prev.ans.warehouse = ans.warehouse
    /\ (prev.ans.summary # "none" /\ ans.summary # "none" /\ prev.req.flight = req.flight
          /\ prev.ans.rest = ans.rest /\ prev.ans.warehouse = ans.warehouse)
          => prev.ans.summary = ans.summary

\* C8: a status-routed query sent again in the same session, the services
\* answering alike, gets the same route and the same result both times.
C8_RepeatedStatusQuerySameOutcome ==
    (Done /\ prev.valid /\ prev.req.raw = req.raw /\ SameAnswers) =>
        /\ req.route = prev.req.route
        /\ resp.kind = prev.resp.kind
        /\ resp.code = prev.resp.code

C8_Witness ==
    /\ Done
    /\ prev.valid
    /\ prev.req.raw = T_aa7route
    /\ req.raw = T_aa7route
    /\ SameAnswers
    /\ Has(memory, "origin")
    /\ prev.resp.code = "NOT_FOUND"
    /\ resp.code = "NOT_FOUND"

\* C9 as stated: with the key absent no request is ever served.
C9_NoRequestServedWithoutKey ==
    ~env.key => ~Served

\* C9, amended: with the key absent the app starts; a request routed to
\* flight_status fails with EnvironmentError when its status agent is built,
\* before the status handler runs and before any REST call; only requests
\* handled by the analytics agent are served.
C9_KeyAbsentFailsStatusRequestsOnly ==
    ~env.key =>
        /\ calls.statusHandle = 0
        /\ calls.rest = 0
        /\ req.route = T_flight_status => resp = Escaped("EnvironmentError")
        /\ Served => req.handler = "analytics"

C9_Witness ==
    /\ ~env.key
    /\ Done
    /\ req.raw = T_AA123
    /\ req.route = T_flight_status
    /\ resp = Escaped("EnvironmentError")
    /\ calls.rest = 0

\* C10: an analytics request whose query passed validation and whose warehouse
\* query returned zero rows ends with NOT_FOUND and without a summarisation
\* call; the summarisation call is made only after a result of at least one row.
C10_ZeroRowsGivesNotFound ==
    req.handler = "analytics" =>
        /\ (Done /\ ans.warehouse = Rows(0)) =>
              /\ resp.kind = "json"
              /\ resp.code = "NOT_FOUND"
        /\ ans.warehouse = Rows(0) => calls.summary = 0
        /\ calls.summary > 0 => (ans.warehouse.kind = "rows" /\ ans.warehouse.rows >= 1)

C10_Witness ==
    /\ Done
    /\ req.handler = "analytics"
    /\ calls.warehouse = 1
    /\ ans.warehouse = Rows(0)
    /\ resp.code = "NOT_FOUND"
    /\ calls.summary = 0

\* C11: when the router chose the status path by its pattern (no
\* classification call), the status handler extracts a flight number from the
\* same text and issues the REST call; it does not return INVALID_INPUT.
C11_PatternRouteAlwaysExtracts ==
    (req.route = T_flight_status /\ ans.classify = NoClassify /\ req.handler = "status") =>
        /\ req.flight # None
        /\ calls.rest = 1
        /\ ~(Served /\ resp.code = "INVALID_INPUT")

HandlersInvoked == calls.statusHandle + calls.analyticsHandle

T_weather == <<"w","e","a","t","h","e","r">>

\* the request went down the analytics branch of chat(): the analytics agent
\* was built and run, or its construction raised
AnalyticsBranchTaken ==
    \/ req.handler = "analytics" /\ calls.analyticsHandle = 1 /\ calls.sqlgen = 1
    \/ resp = Escaped("DefaultCredentialsError")

\* C13: when the classification LLM answered, the route is its text, trimmed
\* and lower-cased, whatever it is; the status handler runs only for the route
\* flight_status, and every other route, a third label included, goes down the
\* analytics branch.
C13_UncheckedLabelGoesToAnalytics ==
    /\ ans.classify.kind = "text" =>
          /\ req.route = StrLower(Strip(ans.classify.text))
          /\ req.route # T_flight_status => AnalyticsBranchTaken
          /\ req.route = T_flight_status => ~AnalyticsBranchTaken
    /\ (req.handler = "status" \/ calls.statusHandle > 0 \/ calls.rest > 0)
          => req.route = T_flight_status
    /\ req.handler = "analytics" => req.route \notin {T_flight_status, RoutePending, RouteNone}

C13_Witness ==
    /\ Done
    /\ Served
    /\ ans.classify.text = R_weather
    /\ req.route = T_weather
    /\ req.handler = "analytics"
    /\ calls.statusHandle = 0

MemoryKeys == {"origin", "dest", "last_intent"}

\* what holds of the session memory in every state
MemoryShape ==
    /\ DOMAIN memory \subseteq MemoryKeys
    /\ Has(memory, "origin") <=> Has(memory, "dest")
    /\ Has(memory, "origin") <=> lastRoute.found
    /\ Has(memory, "origin") => (memory["origin"] = lastRoute.origin /\ memory["dest"] = lastRoute.dest)
    /\ Has(memory, "last_intent") => memory["last_intent"] = T_analytics

\* what holds of every step: keys are never removed; the route changes only
\* in the step that starts a request whose text has a route pattern, and
\* becomes that pattern's pair; last_intent never changes once set; the memory
\* is written only by the step that starts a request, before routing, and
\* every later step of the request (an error code included) leaves it as written
MemoryStep ==
    /\ \A k \in MemoryKeys : Has(memory, k) => Has(memory', k)
    /\ (Has(memory, "last_intent") => memory'["last_intent"] = memory["last_intent"])
    /\ (Has(memory, "origin") /\ (memory'["origin"] # memory["origin"] \/ memory'["dest"] # memory["dest"]))
          => /\ nreq' = nreq + 1
             /\ RouteSearch(req'.raw).found
    /\ (nreq' = nreq + 1 /\ RouteSearch(req'.raw).found)
          => /\ memory'["origin"] = StrUpper(RouteSearch(req'.raw).origin)
             /\ memory'["dest"] = StrUpper(RouteSearch(req'.raw).dest)
    /\ memory' # memory => nreq' = nreq + 1
    /\ nreq' = nreq => memory' = memory

\* C14: origin is present exactly when destination is; once set they are never
\* removed and change only when a later request has a route pattern (last
\* write wins); last_intent is absent or 'analytics' and never changes once
\* set, whatever the route; the memory is written before routing and stays
\* written when the handler returns an error code.
C14_SessionMemoryInvariant ==
    [](MemoryShape) /\ [][MemoryStep]_vars

C14_Witness ==
    /\ Done
    /\ nreq = 3
    /\ DOMAIN memory = MemoryKeys
    /\ memory["origin"] = SFO
    /\ memory["dest"] = JFK
    /\ memory["last_intent"] = T_analytics
    /\ req.raw = T_KA12
    /\ Served
    /\ resp.code = "INVALID_INPUT"

====
